---- MODULE Spec2Model ----
(***************************************************************************)
(* Model of the blog-writing workflow of src/blog/new1.py:                 *)
(*   - the retry / fallback helpers that wrap every model call             *)
(*     (_safe_invoke_runner, _candidate_model_names, the _try_models pair),*)
(*   - the LangGraph graph router -> research -> orchestrator -> workers   *)
(*     -> reducer and the node functions it runs.                          *)
(* Strings the code inspects character by character (task titles, the blog *)
(* title) are sequences of one-character strings.                          *)
(***************************************************************************)
EXTENDS Integers, Sequences, FiniteSets, TLC

VARIABLES
    inv,            \* one call of _try_models_structured / _try_models_raw
    pc,             \* position of the graph run
    mode, needs_research, queries, evidence, plan, as_of, recency_days,
    sections, merged_md, final,      \* the fields of State
    returned,       \* indices of the dispatched workers that have returned
    worker_out,     \* what each worker returned, by position in plan.tasks
    ran,            \* the nodes that have run, in order
    written,        \* the artifacts written by merge_content, in order
    calls,          \* the model calls the nodes made and how each ended
    searched,       \* the calls of _tavily_search and their outcomes, in order
    extracted,      \* pack.evidence as the extraction call returned it
    probe,          \* one application of a pure step of a node to an input
    stream,         \* one call of try_stream: its position and what it yielded
    tree            \* a file under ROOT of the migration script, and its .bak

graph_vars == <<pc, mode, needs_research, queries, evidence, plan, as_of,
                recency_days, sections, merged_md, final, returned,
                worker_out, ran, written, calls, searched, extracted>>
vars == <<inv, graph_vars, probe, stream, tree>>

(***************************************************************************)
(* Bounds of the model.                                                    *)
(***************************************************************************)
MaxRetries == 3
MaxTasks == 2
MaxBudgetTasks == 3
MaxItems == 3
MaxQueries == 11
MaxFaqTasks == 7
MaxMainTasks == 3

(***************************************************************************)
(* Small helpers.                                                          *)
(***************************************************************************)
RECURSIVE Pow(_, _)
Pow(b, n) == IF n = 0 THEN 1 ELSE b * Pow(b, n - 1)

RECURSIVE SumSeq(_)
SumSeq(s) == IF s = <<>> THEN 0 ELSE Head(s) + SumSeq(Tail(s))

Range(s) == {s[i] : i \in 1..Len(s)}

(***************************************************************************)
(* 3) Retry / fallback helpers.                                            *)
(*                                                                         *)
(* An error is a record: cls is the class the specification speaks of      *)
(* (the code tells "not_found" from the rest by "NOT_FOUND"/"404" in       *)
(* str(e)), genai tells a ChatGoogleGenerativeAIError from any other       *)
(* Exception, cand/attempt say where it was raised (attempt -1: while the  *)
(* client object was constructed).                                         *)
(***************************************************************************)
NoErr == [cls |-> "none", genai |-> FALSE, cand |-> "", attempt |-> -1]

\* What runner.invoke(messages) can raise at one attempt.
CallErrors(cand, attempt) ==
    { [cls |-> "transient", genai |-> TRUE,  cand |-> cand, attempt |-> attempt],
      [cls |-> "not_found", genai |-> TRUE,  cand |-> cand, attempt |-> attempt],
      [cls |-> "fatal",     genai |-> TRUE,  cand |-> cand, attempt |-> attempt],
      [cls |-> "fatal",     genai |-> FALSE, cand |-> cand, attempt |-> attempt] }

\* What ChatGoogleGenerativeAI(...) / with_structured_output can raise.
CtorErrors(cand) ==
    { [cls |-> "not_found", genai |-> TRUE,  cand |-> cand, attempt |-> -1],
      [cls |-> "fatal",     genai |-> TRUE,  cand |-> cand, attempt |-> -1],
      [cls |-> "fatal",     genai |-> FALSE, cand |-> cand, attempt |-> -1] }

\* The events of one invocation, in the order they happen.
Ev(ev, cand, attempt, out, secs, err) ==
    [ev |-> ev, cand |-> cand, attempt |-> attempt, out |-> out,
     secs |-> secs, err |-> err]
ConstructEv(cand, out, err) == Ev("construct", cand, -1, out, 0, err)
CallEv(cand, attempt, out, err) == Ev("call", cand, attempt, out, 0, err)
SleepEv(cand, attempt, secs) == Ev("sleep", cand, attempt, "", secs, NoErr)
FallbackEv(err) == Ev("fallback", "", -1, "", 0, err)

\* How a (part of a) call ends: it returns the backend's value, returns
\* fallback(err), returns None, or raises err.
ReturnValue(cand, attempt) ==
    [kind |-> "return", via |-> "call", cand |-> cand, attempt |-> attempt,
     err |-> NoErr]
ReturnFallback(err) ==
    [kind |-> "return", via |-> "fallback", cand |-> "", attempt |-> -1,
     err |-> err]
ReturnNone ==
    [kind |-> "return", via |-> "none", cand |-> "", attempt |-> -1,
     err |-> NoErr]
Raise(err) ==
    [kind |-> "raise", via |-> "none", cand |-> "", attempt |-> -1,
     err |-> err]

Run(trace, out) == [trace |-> trace, out |-> out]
After(prefix, runs) == {Run(prefix \o r.trace, r.out) : r \in runs}

\* time.sleep(backoff_base ** attempt), backoff_base = 2.0
BackoffBase == 2
Backoff(attempt) == Pow(BackoffBase, attempt)

\* Mutants of ShouldRetry: the guard off by one, either way.
ShouldRetry_OneTooMany(attempt, retries) == attempt < retries
ShouldRetry_OneTooFew(attempt, retries) == attempt < retries - 2

\* `if attempt < retries - 1` of both except clauses
ShouldRetry(attempt, retries) == attempt < retries - 1

\* _safe_invoke_runner: every way the loop can go from `attempt` on.
RECURSIVE SafeInvokeFrom(_, _, _)
SafeInvokeFrom(cand, attempt, retries) ==
    IF attempt >= retries
    THEN {Run(<<>>, ReturnNone)}
    ELSE {Run(<<CallEv(cand, attempt, "ok", NoErr)>>, ReturnValue(cand, attempt))}
         \cup UNION {
            IF ShouldRetry(attempt, retries)
            THEN After(<<CallEv(cand, attempt, "error", e),
                         SleepEv(cand, attempt, Backoff(attempt))>>,
                       SafeInvokeFrom(cand, attempt + 1, retries))
            ELSE {Run(<<CallEv(cand, attempt, "error", e), FallbackEv(e)>>,
                      ReturnFallback(e))}
            : e \in CallErrors(cand, attempt) }

SafeInvokeRunner(cand, retries) == SafeInvokeFrom(cand, 0, retries)

\* _candidate_model_names.  The environment values stand for: unset, a
\* valid name not in the fixed list, a valid name of the fixed list, a name
\* the pattern (?i)^gemini[-_0-9a-z.]+$ rejects.
EnvValues == {"", "gemini-2.5-pro", "gemini-1.5-pro", "gpt-4o"}
MatchesGeminiPattern(env) == env \in {"gemini-2.5-pro", "gemini-1.5-pro"}
KnownModels == <<"gemini-1.5-flash", "gemini-1.5-pro", "gemini-2.0-flash-exp">>

RECURSIVE AppendMissing(_, _)
AppendMissing(cands, names) ==
    IF names = <<>> THEN cands
    ELSE AppendMissing(IF Head(names) \in Range(cands) THEN cands
                       ELSE Append(cands, Head(names)),
                       Tail(names))

CandidateModelNames(env) ==
    AppendMissing(IF env # "" /\ MatchesGeminiPattern(env) THEN <<env>> ELSE <<>>,
                  KnownModels)

\* The try block of the candidate loop: construct the client, then
\* `return _safe_invoke_runner(...)`.
TryBody(cand, retries) ==
    After(<<ConstructEv(cand, "ok", NoErr)>>, SafeInvokeRunner(cand, retries))
    \cup {Run(<<ConstructEv(cand, "error", e)>>, Raise(e)) : e \in CtorErrors(cand)}

\* Mutant of TryCandidates: last_exc is not updated when a candidate is
\* given up, so the final fallback gets a stale error.
RECURSIVE TryCandidates_StaleLastExc(_, _, _, _)
TryCandidates_StaleLastExc(cands, i, last_exc, retries) ==
    IF i > Len(cands)
    THEN {Run(<<FallbackEv(last_exc)>>, ReturnFallback(last_exc))}
    ELSE UNION {
            IF r.out.kind = "return"
            THEN {r}
            ELSE IF r.out.err.genai /\ r.out.err.cls # "not_found"
                 THEN {Run(r.trace \o <<FallbackEv(r.out.err)>>,
                           ReturnFallback(r.out.err))}
                 ELSE After(r.trace,
                            TryCandidates_StaleLastExc(cands, i + 1, last_exc,
                                                       retries))
            : r \in TryBody(cands[i], retries) }

\* The candidate loop of _try_models_structured / _try_models_raw from the
\* i-th candidate on, with its two except clauses and the final
\* `return fallback(last_exc)`.
RECURSIVE TryCandidates(_, _, _, _)
TryCandidates(cands, i, last_exc, retries) ==
    IF i > Len(cands)
    THEN {Run(<<FallbackEv(last_exc)>>, ReturnFallback(last_exc))}
    ELSE UNION {
            IF r.out.kind = "return"
            THEN {r}
            ELSE IF r.out.err.genai /\ r.out.err.cls # "not_found"
                 THEN {Run(r.trace \o <<FallbackEv(r.out.err)>>,
                           ReturnFallback(r.out.err))}
                 ELSE After(r.trace,
                            TryCandidates(cands, i + 1, r.out.err, retries))
            : r \in TryBody(cands[i], retries) }

TryModelsStructured(env, retries) ==
    TryCandidates(CandidateModelNames(env), 1, NoErr, retries)

TryModelsRaw(env, retries) ==
    TryCandidates(CandidateModelNames(env), 1, NoErr, retries)

(***************************************************************************)
(* One invocation of the ModelInvoker, observed from outside.              *)
(***************************************************************************)
InvIdle ==
    [phase |-> "idle", kind |-> "", retries |-> 0, cands |-> <<>>,
     trace |-> <<>>, out |-> ReturnNone]

InvokeStructured ==
    /\ inv.phase = "idle"
    /\ \E retries \in 1..MaxRetries, env \in EnvValues :
         \E r \in TryModelsStructured(env, retries) :
            inv' = [phase |-> "done", kind |-> "structured", retries |-> retries,
                    cands |-> CandidateModelNames(env),
                    trace |-> r.trace, out |-> r.out]
    /\ UNCHANGED <<graph_vars, probe, stream, tree>>

InvokeRaw ==
    /\ inv.phase = "idle"
    /\ \E retries \in 1..MaxRetries, env \in EnvValues :
         \E r \in TryModelsRaw(env, retries) :
            inv' = [phase |-> "done", kind |-> "raw", retries |-> retries,
                    cands |-> CandidateModelNames(env),
                    trace |-> r.trace, out |-> r.out]
    /\ UNCHANGED <<graph_vars, probe, stream, tree>>

(***************************************************************************)
(* What a node sees of a model call made with the default retries=3: the   *)
(* backend's value ("call"), the fallback's value ("fallback"), or a       *)
(* failure of the call itself ("none", "raise").                           *)
(***************************************************************************)
DefaultRetries == 3

OutcomeKind(out) == IF out.kind = "return" THEN out.via ELSE "raise"

StructuredResults ==
    {OutcomeKind(r.out) :
        r \in UNION {TryModelsStructured(env, DefaultRetries) : env \in EnvValues}}

RawResults ==
    {OutcomeKind(r.out) :
        r \in UNION {TryModelsRaw(env, DefaultRetries) : env \in EnvValues}}

(***************************************************************************)
(* Text helpers: str.lower, str.strip, `key in title`, re.sub.             *)
(***************************************************************************)
UpperCase == <<"A","B","C","D","E","F","G","H","I","J","K","L","M",
               "N","O","P","Q","R","S","T","U","V","W","X","Y","Z">>
LowerCase == <<"a","b","c","d","e","f","g","h","i","j","k","l","m",
               "n","o","p","q","r","s","t","u","v","w","x","y","z">>
Digits == {"0","1","2","3","4","5","6","7","8","9"}

LowerChar(c) ==
    IF \E i \in 1..Len(UpperCase) : UpperCase[i] = c
    THEN LowerCase[CHOOSE i \in 1..Len(UpperCase) : UpperCase[i] = c]
    ELSE c

Lower(s) == [i \in 1..Len(s) |-> LowerChar(s[i])]

\* s.strip(ch): without the leading and trailing characters that are in ch.
Strip(s, ch) ==
    LET keep == {i \in 1..Len(s) : s[i] \notin ch}
    IN IF keep = {} THEN <<>>
       ELSE SubSeq(s, CHOOSE i \in keep : \A j \in keep : i <= j,
                      CHOOSE i \in keep : \A j \in keep : i >= j)

Contains(key, s) ==
    \E i \in 1..(Len(s) - Len(key) + 1) : SubSeq(s, i, i + Len(key) - 1) = key

\* re.sub(r"\s+", "_", s): every run of spaces becomes one "_".
CollapseSpaces(s) ==
    LET RunStart(i) == s[i] # " " \/ i = 1 \/ s[i - 1] # " "
        kept == SelectSeq([i \in 1..Len(s) |-> i], RunStart)
    IN [k \in 1..Len(kept) |-> IF s[kept[k]] = " " THEN "_" ELSE s[kept[k]]]

SlugChars == Range(LowerCase) \cup Digits \cup {" ", "_", "-"}
IsSlugChar(c) == c \in SlugChars

\* _safe_slug
SafeSlug(title) ==
    LET s1 == Lower(Strip(title, {" "}))
        s2 == SelectSeq(s1, IsSlugChar)
        s3 == Strip(CollapseSpaces(s2), {"_"})
    IN IF s3 = <<>> THEN <<"b","l","o","g">> ELSE s3

(***************************************************************************)
(* 4) Router.                                                              *)
(***************************************************************************)
Modes == {"closed_book", "hybrid", "open_book"}
QueryLists == {<<>>, <<"q1">>}
MaxResultsDefault == 5

\* The RouterDecision values the model can return (any value of the schema).
RouterDecisions ==
    [needs_research : BOOLEAN, mode : Modes, queries : QueryLists,
     max_results_per_query : {MaxResultsDefault}]

\* Decisions with query lists of every length up to MaxQueries, for the
\* research stage taken alone.
QueryNames ==
    <<"q1", "q2", "q3", "q4", "q5", "q6", "q7", "q8", "q9", "q10", "q11",
      "q12", "q13", "q14">>
LongQueryLists == {SubSeq(QueryNames, 1, n) : n \in 0..MaxQueries}
LongRouterDecisions ==
    [needs_research : BOOLEAN, mode : Modes, queries : LongQueryLists,
     max_results_per_query : {MaxResultsDefault}]

\* Mutant of DeciderFallback: a fallback decision that asks for research.
DeciderFallback_NeedsResearch ==
    [needs_research |-> TRUE, mode |-> "hybrid", queries |-> <<"q1">>,
     max_results_per_query |-> MaxResultsDefault]

\* decider_fallback
DeciderFallback ==
    [needs_research |-> FALSE, mode |-> "closed_book", queries |-> <<>>,
     max_results_per_query |-> MaxResultsDefault]

\* Mutant of RecencyDays: hybrid given the closed_book window.
RecencyDays_HybridAsClosedBook(m) == IF m = "open_book" THEN 7 ELSE 3650

\* recency_days = 7 if open_book else 45 if hybrid else 3650
RecencyDays(m) ==
    IF m = "open_book" THEN 7 ELSE IF m = "hybrid" THEN 45 ELSE 3650

\* Mutant of RouteNext: the research stage chosen whatever needs_research is.
RouteNext_AlwaysResearch(needs) == "research"

\* route_next
RouteNext(needs) == IF needs THEN "research" ELSE "orchestrator"

(***************************************************************************)
(* 5) Research.  A date is a day number; published_at is None ("none"),    *)
(* a string whose first 10 characters are no ISO date ("bad") or one whose *)
(* first 10 characters are the ISO date of `day` ("iso").                  *)
(***************************************************************************)
AsOfDays == {20000}
QueryCap == 10

Published(kind, day) == [kind |-> kind, day |-> day]
EvidenceItem(title, url, published_at) ==
    [title |-> title, url |-> url, published_at |-> published_at]

\* _tavily_search: the hits of one query; [] without API key or on any error.
SearchOutcomes == {"error", "ok"}
TavilyHits(q, outcome) ==
    IF outcome = "ok" THEN <<[query |-> q, url |-> "u1"]>> ELSE <<>>
TavilySearch(q) == {TavilyHits(q, o) : o \in SearchOutcomes}

\* One call of _tavily_search as research_node sees it.
SearchCall(q, outcome, hits) == [query |-> q, outcome |-> outcome, hits |-> hits]

\* _iso_to_date
IsoToDate(p) ==
    IF p.kind = "iso" THEN [ok |-> TRUE, day |-> p.day]
    ELSE [ok |-> FALSE, day |-> 0]

\* dedup = {e.url: e for e in pack.evidence if e.url}; list(dedup.values()):
\* keys in order of first insertion, each with the last value written.
RECURSIVE FirstUrls(_, _)
FirstUrls(items, seen) ==
    IF items = <<>> THEN <<>>
    ELSE IF Head(items).url = "" \/ Head(items).url \in seen
         THEN FirstUrls(Tail(items), seen)
         ELSE <<Head(items).url>>
              \o FirstUrls(Tail(items), seen \cup {Head(items).url})

\* Mutant of LastWithUrl: the first item written under a url is kept.
LastWithUrl_FirstWins(items, u) ==
    items[CHOOSE i \in 1..Len(items) :
            /\ items[i].url = u
            /\ \A j \in 1..(i - 1) : items[j].url # u]

LastWithUrl(items, u) ==
    items[CHOOSE i \in 1..Len(items) :
            /\ items[i].url = u
            /\ \A j \in (i + 1)..Len(items) : items[j].url # u]

\* Mutant of DedupByUrl: the kept items listed in the opposite order.
DedupByUrl_Reversed(items) ==
    LET keys == FirstUrls(items, {})
    IN [k \in 1..Len(keys) |-> LastWithUrl(items, keys[Len(keys) + 1 - k])]

DedupByUrl(items) ==
    LET keys == FirstUrls(items, {})
    IN [k \in 1..Len(keys) |-> LastWithUrl(items, keys[k])]

\* The lists the extractor can return, for the dedup step taken alone: items
\* without url and items that share a url but differ in title.
DedupItems ==
    {EvidenceItem(t, u, Published("none", 0)) :
        t \in {"t1", "t2"}, u \in {"", "u1", "u2"}}
DedupLists == UNION {[1..n -> DedupItems] : n \in 0..MaxItems}

\* The dedup step of research_node applied to one extracted list.
DedupEvidence ==
    /\ probe.fn = "idle"
    /\ \E items \in DedupLists :
         probe' = [fn |-> "dedup", input |-> items, output |-> DedupByUrl(items)]
    /\ UNCHANGED <<inv, graph_vars, stream, tree>>

\* Mutant of KeepRecent: an item dated on the cutoff day is dropped.
KeepRecent_AfterCutoff(e, cutoff) ==
    LET d == IsoToDate(e.published_at) IN d.ok /\ d.day > cutoff

\* (d := _iso_to_date(e.published_at)) and d >= cutoff
KeepRecent(e, cutoff) ==
    LET d == IsoToDate(e.published_at) IN d.ok /\ d.day >= cutoff

RecencyFilter(items, m, asOf, days) ==
    IF m = "open_book"
    THEN LET cutoff == asOf - days
             Keep(e) == KeepRecent(e, cutoff)
         IN SelectSeq(items, Keep)
    ELSE items

\* The EvidencePack values the extractor can return, for an as-of day.
PackSamples(asOf) ==
    LET onCutoff == EvidenceItem("t1", "u1", Published("iso", asOf - 7))
        stale    == EvidenceItem("t2", "u1", Published("iso", asOf - 8))
        noUrl    == EvidenceItem("t3", "", Published("none", 0))
        other    == EvidenceItem("t4", "u2", Published("iso", asOf))
        old      == EvidenceItem("t5", "u2", Published("iso", asOf - 46))
        undated  == EvidenceItem("t6", "u2", Published("none", 0))
        garbled  == EvidenceItem("t7", "u3", Published("bad", 0))
    IN {<<>>, <<stale, onCutoff>>, <<noUrl, onCutoff, stale>>,
        <<other, onCutoff, old>>, <<undated, garbled, onCutoff>>}

\* pack.evidence: what the extractor returned, or the empty list of
\* extractor_fallback.
ExtractedPack(kind, pack) == IF kind = "call" THEN pack ELSE <<>>

\* research_node after the searches: raw is the concatenation of the hits,
\* kind the outcome of the extraction call, pack what the extractor returned.
ResearchEvidence(raw, kind, pack, m, asOf, days) ==
    IF raw = <<>> THEN <<>>
    ELSE RecencyFilter(DedupByUrl(ExtractedPack(kind, pack)), m, asOf, days)

RECURSIVE Concat(_)
Concat(ss) == IF ss = <<>> THEN <<>> ELSE Head(ss) \o Concat(Tail(ss))

\* Mutant of FirstN: the whole list, no slice.
FirstN_All(s, n) == s

\* s[:n]
FirstN(s, n) == SubSeq(s, 1, IF Len(s) < n THEN Len(s) ELSE n)

(***************************************************************************)
(* 6) Orchestrator.                                                        *)
(***************************************************************************)
Topic == <<"A","I">>
ModelBlogTitle == <<"A","I"," ","1","0","1","!">>
TitleFAQs == <<"F","A","Q","s">>
TitleCore == <<"C","o","r","e">>
TitleOverview == <<"O","v","e","r","v","i","e","w">>
ModelBullets == <<"b1", "b2", "b3">>
FallbackBullets == <<"What this topic is", "Why it matters", "Key takeaway">>

TaskIds == {1, 2}
TaskTitles == {TitleFAQs, TitleCore}
ProposedWords == {550}

Task(id, title, bullets, words) ==
    [id |-> id, title |-> title, bullets |-> bullets, target_words |-> words]

ModelTasks ==
    {Task(id, t, ModelBullets, w) :
        id \in TaskIds, t \in TaskTitles, w \in ProposedWords}

TaskLists == UNION {[1..n -> ModelTasks] : n \in 0..MaxTasks}

NoPlan == [present |-> FALSE]
Plan(title, kind, tasks) ==
    [present |-> TRUE, blog_title |-> title, blog_kind |-> kind, tasks |-> tasks]

\* The Plan values the model can return (any value of the schema).
ModelPlans == {Plan(ModelBlogTitle, "tutorial", ts) : ts \in TaskLists}

\* _fallback_plan
FallbackPlan(topic, m) ==
    Plan(IF topic # <<>> THEN topic ELSE <<"U","n","t","i","t","l","e","d">>,
         IF m = "open_book" THEN "news_roundup" ELSE "explainer",
         <<Task(1, TitleOverview, FallbackBullets, 250)>>)

TOTAL_WORDS == 2500

\* Mutant of FIXED_BUDGETS: the roles looked up in another order, faq first.
FIXED_BUDGETS_FaqFirst ==
    << [key |-> <<"f","a","q">>, words |-> 400],
       [key |-> <<"i","n","t","r","o","d","u","c","t","i","o","n">>, words |-> 200],
       [key |-> <<"d","e","f","i","n","i","t","i","o","n">>, words |-> 200],
       [key |-> <<"c","o","n","c","l","u","s","i","o","n">>, words |-> 200] >>

FIXED_BUDGETS ==
    << [key |-> <<"i","n","t","r","o","d","u","c","t","i","o","n">>, words |-> 200],
       [key |-> <<"d","e","f","i","n","i","t","i","o","n">>, words |-> 200],
       [key |-> <<"c","o","n","c","l","u","s","i","o","n">>, words |-> 200],
       [key |-> <<"f","a","q">>, words |-> 400] >>

\* The first key of FIXED_BUDGETS found in title.lower().strip(); 0 if none.
RoleOf(title) ==
    LET t == Strip(Lower(title), {" "})
        hits == {k \in 1..Len(FIXED_BUDGETS) : Contains(FIXED_BUDGETS[k].key, t)}
    IN IF hits = {} THEN 0
       ELSE CHOOSE k \in hits : \A h \in hits : k <= h

FixedTotal(tasks) ==
    SumSeq([i \in 1..Len(tasks) |->
              IF RoleOf(tasks[i].title) = 0 THEN 0
              ELSE FIXED_BUDGETS[RoleOf(tasks[i].title)].words])

\* Mutant of MainCount: the remainder divided by the number of all tasks.
MainCount_AllTasks(tasks) == Len(tasks)

\* len(main_tasks)
MainCount(tasks) == Cardinality({i \in 1..Len(tasks) : RoleOf(tasks[i].title) = 0})

\* The 2500-word enforcement of orchestrator_node.
NormalizeBudget(tasks) ==
    LET remaining_words == TOTAL_WORDS - FixedTotal(tasks)
        n == MainCount(tasks)
    IN [i \in 1..Len(tasks) |->
          IF RoleOf(tasks[i].title) # 0
          THEN [tasks[i] EXCEPT !.target_words = FIXED_BUDGETS[RoleOf(tasks[i].title)].words]
          ELSE IF remaining_words > 0 /\ n > 0
               THEN [tasks[i] EXCEPT !.target_words = remaining_words \div n]
               ELSE tasks[i]]

\* Mutant of OrchestratorPlan: the node returns no plan.
OrchestratorPlan_NoPlan(p, m) == NoPlan

\* What orchestrator_node does to the plan the call returned.
OrchestratorPlan(p, m) ==
    [p EXCEPT !.tasks = NormalizeBudget(p.tasks),
              !.blog_kind = IF m = "open_book" THEN "news_roundup" ELSE @]

TotalWords(p) == SumSeq([i \in 1..Len(p.tasks) |-> p.tasks[i].target_words])

\* Titles for the budget enforcement taken alone: the four roles, a title
\* that matches no role, one that matches two roles (conclusion and faq), and
\* one in capitals with blanks around it.
TitleIntroduction == <<"I","n","t","r","o","d","u","c","t","i","o","n">>
TitleDefinition == <<"D","e","f","i","n","i","t","i","o","n">>
TitleConclusion == <<"C","o","n","c","l","u","s","i","o","n">>
TitleFaqConclusion == <<"F","A","Q"," ","a","n","d"," ","c","o","n","c","l","u","s","i","o","n">>
TitleDefinitionCaps == <<" ","D","E","F","I","N","I","T","I","O","N"," ">>
BudgetTitles ==
    {TitleIntroduction, TitleDefinition, TitleConclusion, TitleFAQs, TitleCore,
     TitleFaqConclusion, TitleDefinitionCaps}

\* The task lists of a plan, ids in plan order.
BudgetTaskLists ==
    UNION {{[i \in 1..n |-> Task(i, ts[i], ModelBullets, w)] :
                ts \in [1..n -> BudgetTitles], w \in ProposedWords}
           : n \in 0..MaxBudgetTasks}

\* Longer plans, by their numbers of FAQ, Introduction and non-role tasks:
\* enough FAQ tasks for the fixed budgets alone to pass 2500.  The model's
\* proposal for the task with id i is 120 + i words.
LongTaskList(f, n, c) ==
    [i \in 1..(f + n + c) |->
        Task(i,
             IF i <= f THEN TitleFAQs
             ELSE IF i <= f + n THEN TitleIntroduction ELSE TitleCore,
             ModelBullets, 120 + i)]
LongTaskLists ==
    {LongTaskList(f, n, c) :
        f \in 0..MaxFaqTasks, n \in 0..1, c \in 0..MaxMainTasks}

\* The 2500-word enforcement applied to one of the longer task lists.
EnforceBudgetLong ==
    /\ probe.fn = "idle"
    /\ \E tasks \in LongTaskLists :
         probe' = [fn |-> "budget", input |-> tasks,
                   output |-> NormalizeBudget(tasks)]
    /\ UNCHANGED <<inv, graph_vars, stream, tree>>

\* The 2500-word enforcement of orchestrator_node applied to one task list.
EnforceBudget ==
    /\ probe.fn = "idle"
    /\ \E tasks \in BudgetTaskLists :
         probe' = [fn |-> "budget", input |-> tasks,
                   output |-> NormalizeBudget(tasks)]
    /\ UNCHANGED <<inv, graph_vars, stream, tree>>

(***************************************************************************)
(* 7) Fanout, 8) Worker, 9) Reducer.                                       *)
(***************************************************************************)
\* fanout: one payload per task, each a copy of what the worker needs.
Fanout(p, m, asOf, days, ev) ==
    [i \in 1..Len(p.tasks) |->
        [task |-> p.tasks[i], topic |-> Topic, mode |-> m, as_of |-> asOf,
         recency_days |-> days, plan |-> p, evidence |-> ev]]

FaqBullets ==
    <<"Answer each question clearly", "Keep answers short and simple",
      "Do not introduce new topics">>

\* The task a worker writes: its own copy, bullets replaced for "faqs".
WorkerTask(payload) ==
    IF Lower(payload.task.title) = <<"f","a","q","s">>
    THEN [payload.task EXCEPT !.bullets = FaqBullets]
    ELSE payload.task

\* A section text: the text the model wrote for the i-th payload, or the
\* placeholder "## <title> / Not available: ..." of _fallback_section.
Section(kind, title, by) == [kind |-> kind, title |-> title, by |-> by]

\* worker_node: the update {"sections": [(task.id, section_md)]}.
WorkerNode(payload, i, kind) ==
    LET task == WorkerTask(payload)
    IN <<task.id,
         IF kind = "call" THEN Section("model", task.title, i)
         ELSE Section("placeholder", task.title, 0)>>

\* sorted(sections, key=lambda x: x[0]): stable, ascending.
RECURSIVE InsertById(_, _)
InsertById(pair, sorted) ==
    IF sorted = <<>> THEN <<pair>>
    ELSE IF pair[1] < Head(sorted)[1] THEN <<pair>> \o sorted
         ELSE <<Head(sorted)>> \o InsertById(pair, Tail(sorted))

RECURSIVE SortById(_)
SortById(pairs) ==
    IF pairs = <<>> THEN <<>>
    ELSE InsertById(pairs[Len(pairs)], SortById(SubSeq(pairs, 1, Len(pairs) - 1)))

\* merged_md = "# <blog_title>" followed by the ordered section texts.
MergedMd(p, secs) ==
    LET ordered == SortById(secs)
    IN <<Section("h1", p.blog_title, 0)>>
       \o [i \in 1..Len(ordered) |-> ordered[i][2]]

\* _safe_slug of every blog title a plan can carry, computed once.
BlogTitles == {ModelBlogTitle, Topic, <<"U","n","t","i","t","l","e","d">>}
SlugOf == [t \in BlogTitles |-> SafeSlug(t)]

\* Path(filename).write_text(merged_md)
Artifact(p, md) ==
    [filename |-> SlugOf[p.blog_title] \o <<".","m","d">>, content |-> md]

GraphInit ==
    /\ pc = "start"
    /\ mode = ""
    /\ needs_research = FALSE
    /\ queries = <<>>
    /\ evidence = <<>>
    /\ plan = [present |-> FALSE]
    /\ as_of = 0
    /\ recency_days = 7
    /\ sections = <<>>
    /\ merged_md = <<>>
    /\ final = <<>>
    /\ returned = {}
    /\ worker_out = <<>>
    /\ ran = <<>>
    /\ written = <<>>
    /\ calls = <<>>
    /\ searched = <<>>
    /\ extracted = <<>>

\* No pure step applied yet.
ProbeIdle == [fn |-> "idle", input |-> <<>>, output |-> <<>>]

\* try_stream not called yet.
StreamIdle == [phase |-> "idle", attempt |-> 0, base |-> 0, events |-> <<>>]

\* No file visited yet by the migration script.
NoTree ==
    [suffix |-> "", content |-> <<>>, bak |-> <<>>, before |-> <<>>,
     migrated |-> FALSE, changed |-> FALSE]

Init ==
    /\ inv = InvIdle
    /\ GraphInit
    /\ probe = ProbeIdle
    /\ stream = StreamIdle
    /\ tree = NoTree

(***************************************************************************)
(* 10) The graph.  pc is the node(s) the next superstep runs: "router",    *)
(* "research", "orchestrator", "worker" (the workers fanout dispatched;    *)
(* the reducer follows once all of them have returned), "end"; "crashed"   *)
(* when a node raised.                                                     *)
(***************************************************************************)
Pending == <<0, Section("pending", <<>>, 0)>>

\* One call of _try_models_structured / _try_models_raw made by a node: via
\* is "call" when a backend call succeeded, "fallback" when every call failed
\* and the node got its fallback's value.
ModelCall(node, via) == [node |-> node, via |-> via]
NumTasks == IF plan.present THEN Len(plan.tasks) ELSE 0

\* app.invoke(inputs) with the inputs the UI builds; START -> router.
GraphInvoke ==
    /\ pc = "start"
    /\ \E d \in AsOfDays : as_of' = d
    /\ pc' = "router"
    /\ mode' = ""
    /\ needs_research' = FALSE
    /\ queries' = <<>>
    /\ evidence' = <<>>
    /\ plan' = NoPlan
    /\ recency_days' = 7
    /\ sections' = <<>>
    /\ merged_md' = <<>>
    /\ final' = <<>>
    /\ UNCHANGED <<inv, probe, stream, tree, extracted, returned, worker_out,
                   ran, written, calls, searched>>

Crash(node) ==
    /\ pc' = "crashed"
    /\ ran' = Append(ran, node)
    /\ UNCHANGED <<inv, probe, stream, tree, extracted, mode, needs_research,
                   queries, evidence, plan, as_of, recency_days, sections,
                   merged_md, final, returned, worker_out, written, calls,
                   searched>>

\* router_node, then the conditional edge route_next.
RouterWith(decisions) ==
    /\ pc = "router"
    /\ \E k \in StructuredResults, decision \in decisions \cup {DeciderFallback} :
         /\ k = "call" => decision \in decisions
         /\ k # "call" => decision = DeciderFallback
         /\ IF k \in {"call", "fallback"}
            THEN /\ needs_research' = decision.needs_research
                 /\ mode' = decision.mode
                 /\ queries' = decision.queries
                 /\ recency_days' = RecencyDays(decision.mode)
                 /\ pc' = RouteNext(decision.needs_research)
                 /\ ran' = Append(ran, "router")
                 /\ calls' = Append(calls, ModelCall("router", k))
                 /\ UNCHANGED <<inv, probe, stream, tree, extracted, evidence,
                                plan, as_of, sections, merged_md, final,
                                returned, worker_out, written, searched>>
            ELSE Crash("router")

RouterNode == RouterWith(RouterDecisions)
RouterNodeLong == RouterWith(LongRouterDecisions)

\* research_node; research -> orchestrator.
ResearchNode ==
    /\ pc = "research"
    /\ LET qs == FirstN(queries, QueryCap)
       IN \E outs \in [1..Len(qs) -> SearchOutcomes],
             k \in StructuredResults, pack \in PackSamples(as_of) :
          LET hits == [i \in 1..Len(qs) |-> TavilyHits(qs[i], outs[i])]
          IN
            /\ \A i \in 1..Len(qs) : hits[i] \in TavilySearch(qs[i])
            /\ IF Concat(hits) = <<>> \/ k \in {"call", "fallback"}
               THEN /\ evidence' = ResearchEvidence(Concat(hits), k, pack, mode,
                                                    as_of, recency_days)
                    /\ pc' = "orchestrator"
                    /\ ran' = Append(ran, "research")
                    /\ searched' = searched \o
                          [i \in 1..Len(qs) |->
                              SearchCall(qs[i], outs[i], Len(hits[i]))]
                    /\ calls' = IF Concat(hits) = <<>> THEN calls
                                ELSE Append(calls, ModelCall("research", k))
                    /\ extracted' = IF Concat(hits) = <<>> THEN extracted
                                    ELSE ExtractedPack(k, pack)
                    /\ UNCHANGED <<inv, probe, stream, tree, mode,
                                   needs_research, queries, plan, as_of,
                                   recency_days, sections, merged_md, final,
                                   returned, worker_out, written>>
               ELSE Crash("research")

\* orchestrator_node, then the conditional edge fanout: one worker per task.
OrchestratorNode ==
    /\ pc = "orchestrator"
    /\ \E k \in StructuredResults, p \in ModelPlans \cup {FallbackPlan(Topic, mode)} :
         /\ k = "call" => p \in ModelPlans
         /\ k # "call" => p = FallbackPlan(Topic, mode)
         /\ IF k \in {"call", "fallback"}
            THEN /\ plan' = OrchestratorPlan(p, mode)
                 /\ pc' = IF Len(p.tasks) = 0 THEN "end" ELSE "worker"
                 /\ returned' = {}
                 /\ worker_out' = [i \in 1..Len(p.tasks) |-> Pending]
                 /\ ran' = Append(ran, "orchestrator")
                 /\ calls' = Append(calls, ModelCall("orchestrator", k))
                 /\ UNCHANGED <<inv, probe, stream, tree, extracted, mode,
                                needs_research, queries, evidence, as_of,
                                recency_days, sections, merged_md, final,
                                written, searched>>
            ELSE Crash("orchestrator")

\* Mutant of WorkerRun: the payload carries the state's Task itself rather
\* than a copy, so the worker's bullet overwrite shows in the state's plan.
WorkerRun_SharedTask(i) ==
    /\ pc = "worker"
    /\ i \in (1..NumTasks) \ returned
    /\ \E k \in RawResults :
         LET payload == Fanout(plan, mode, as_of, recency_days, evidence)[i]
             pair == WorkerNode(payload, i, k)
         IN /\ sections' = sections \o <<pair>>
            /\ worker_out' = [worker_out EXCEPT ![i] = pair]
            /\ returned' = returned \cup {i}
            /\ ran' = Append(ran, "worker")
            /\ calls' = Append(calls, ModelCall("worker", k))
            /\ plan' = [plan EXCEPT !.tasks[i] = WorkerTask(payload)]
            /\ UNCHANGED <<inv, probe, stream, tree, extracted, pc, mode,
                           needs_research, queries, evidence, as_of,
                           recency_days, merged_md, final, written, searched>>

\* One dispatched worker runs worker_node and returns; its update is added
\* to State.sections by operator.add.
WorkerRun(i) ==
    /\ pc = "worker"
    /\ i \in (1..NumTasks) \ returned
    /\ \E k \in RawResults :
         IF k \in {"call", "fallback"}
         THEN LET pair == WorkerNode(Fanout(plan, mode, as_of, recency_days,
                                            evidence)[i], i, k)
              IN /\ sections' = sections \o <<pair>>
                 /\ worker_out' = [worker_out EXCEPT ![i] = pair]
                 /\ returned' = returned \cup {i}
                 /\ ran' = Append(ran, "worker")
                 /\ calls' = Append(calls, ModelCall("worker", k))
                 /\ UNCHANGED <<inv, probe, stream, tree, extracted, pc, mode,
                                needs_research, queries, evidence, plan, as_of,
                                recency_days, merged_md, final, written,
                                searched>>
         ELSE Crash("worker")

\* Mutant of ReducerTriggered: the reducer triggered by the first worker.
ReducerTriggered_AnyWorker == returned # {}

\* The edge worker -> reducer: the reducer runs in the superstep after the
\* one in which the dispatched workers ran.
ReducerTriggered == returned = 1..NumTasks

\* merge_content on the current state: raises ValueError without a plan,
\* else merges, writes the artifact and returns merged_md and final.
MergeContent ==
    IF plan.present
    THEN /\ merged_md' = MergedMd(plan, sections)
         /\ final' = MergedMd(plan, sections)
         /\ written' = Append(written, Artifact(plan, MergedMd(plan, sections)))
         /\ pc' = "end"
         /\ ran' = Append(ran, "reducer")
         /\ UNCHANGED <<inv, probe, stream, tree, extracted, mode,
                        needs_research, queries, evidence, plan, as_of,
                        recency_days, sections, returned, worker_out, calls,
                        searched>>
    ELSE Crash("reducer")

\* The reducer subgraph as a node of the graph; reducer -> END.
ReducerNode ==
    /\ pc = "worker"
    /\ ReducerTriggered
    /\ MergeContent

\* reducer_subgraph invoked on its own, outside a run of the graph, with the
\* inputs the UI builds (plan None).
ReducerAlone ==
    /\ pc = "start"
    /\ MergeContent

GraphNext ==
    \/ GraphInvoke
    \/ RouterNode
    \/ ResearchNode
    \/ OrchestratorNode
    \/ \E i \in 1..MaxTasks : WorkerRun(i)
    \/ ReducerNode

Spec == Init /\ [][GraphNext]_vars
FairSpec == Spec /\ WF_vars(GraphNext)

InvokerNext == InvokeStructured \/ InvokeRaw
InvokerSpec == Init /\ [][InvokerNext]_vars

ReducerNext == GraphNext \/ ReducerAlone
ReducerSpec == Init /\ [][ReducerNext]_vars

ResearchNext == GraphInvoke \/ RouterNodeLong \/ ResearchNode
ResearchSpec == Init /\ [][ResearchNext]_vars

StepNext == EnforceBudget \/ EnforceBudgetLong \/ DedupEvidence
StepSpec == Init /\ [][StepNext]_vars

\* ---------------------------------------------------------------------
\* src/blog/new2.py: try_stream(graph_app, inputs), the generator the
\* Generate button iterates.  graph_app is the compiled graph above; its
\* model calls are taken in the run where the backend gives no usable
\* answer (every node falls back or raises), and an exception may leave
\* graph_app.stream or graph_app.invoke at any point of a run.
\* ---------------------------------------------------------------------

\* The kind of the events of a streaming attempt: stream_mode "updates" in
\* the first try block, "values" in the second.
StreamKind(attempt) == IF attempt = 1 THEN "updates" ELSE "values"

Events(kind, n) == [i \in 1..n |-> kind]

\* Steps of the current graph run that completed, one streamed event each.
StepsDone == Len(ran) - stream.base - (IF pc = "crashed" THEN 1 ELSE 0)

\* except Exception: pass -- the next try block, or the unguarded invoke at
\* the end, out of which the exception leaves try_stream.
AfterException(st) ==
    IF st.attempt = 1
    THEN [st EXCEPT !.phase = "stream", !.attempt = 2, !.base = Len(ran)]
    ELSE IF st.attempt = 2
         THEN [st EXCEPT !.phase = "invoke", !.attempt = 3, !.base = Len(ran)]
         ELSE [st EXCEPT !.phase = "raised"]

\* Mutant of AfterFinal: the first try block without its return, so that
\* control falls from the first yield of "final" into the second try block.
AfterFinal_NoReturn(st) ==
    IF st.attempt = 1
    THEN [st EXCEPT !.phase = "stream", !.attempt = 2, !.base = Len(ran)]
    ELSE [st EXCEPT !.phase = "done"]

\* yield ("final", out) is followed by return, or ends the function.
AfterFinal(st) == [st EXCEPT !.phase = "done"]

\* A call of graph_app.stream or graph_app.invoke starts a fresh run.
RunPc(st) == IF st.phase \in {"stream", "invoke"} THEN "start" ELSE pc

\* The run_btn handler calls try_stream(app, inputs).
TryStreamCall ==
    /\ stream.phase = "idle"
    /\ pc = "start"
    /\ stream' = [phase |-> "stream", attempt |-> 1, base |-> Len(ran),
                  events |-> <<>>]
    /\ UNCHANGED <<inv, graph_vars, probe, tree>>

\* One step of the graph inside graph_app.stream or graph_app.invoke.
GraphAppStep ==
    /\ stream.phase \in {"stream", "invoke"}
    /\ \/ GraphInvoke
       \/ RouterNode
       \/ OrchestratorNode
       \/ \E i \in 1..MaxTasks : WorkerRun(i)
       \/ ReducerNode
    /\ calls' # calls => calls'[Len(calls')].via = "fallback"

\* graph_app.stream raises: the events of the completed steps were yielded.
StreamRaises ==
    /\ stream.phase = "stream"
    /\ LET st == [stream EXCEPT !.events =
                     @ \o Events(StreamKind(stream.attempt), StepsDone)]
       IN /\ stream' = AfterException(st)
          /\ pc' = RunPc(AfterException(st))
    /\ UNCHANGED <<inv, probe, tree, extracted, mode, needs_research, queries,
                   evidence, plan, as_of, recency_days, sections, merged_md,
                   final, returned, worker_out, ran, written, calls, searched>>

\* graph_app.stream is exhausted; out = graph_app.invoke(inputs) starts.
StreamExhausted ==
    /\ stream.phase = "stream"
    /\ pc = "end"
    /\ stream' = [stream EXCEPT
                     !.events = @ \o Events(StreamKind(stream.attempt),
                                            StepsDone),
                     !.phase = "invoke", !.base = Len(ran)]
    /\ pc' = "start"
    /\ UNCHANGED <<inv, probe, tree, extracted, mode, needs_research, queries,
                   evidence, plan, as_of, recency_days, sections, merged_md,
                   final, returned, worker_out, ran, written, calls, searched>>

\* graph_app.invoke raises.
InvokeRaises ==
    /\ stream.phase = "invoke"
    /\ stream' = AfterException(stream)
    /\ pc' = RunPc(AfterException(stream))
    /\ UNCHANGED <<inv, probe, tree, extracted, mode, needs_research, queries,
                   evidence, plan, as_of, recency_days, sections, merged_md,
                   final, returned, worker_out, ran, written, calls, searched>>

\* graph_app.invoke returns out; yield ("final", out).
InvokeReturns ==
    /\ stream.phase = "invoke"
    /\ pc = "end"
    /\ LET st == [stream EXCEPT !.events = Append(@, "final")]
       IN /\ stream' = AfterFinal(st)
          /\ pc' = RunPc(AfterFinal(st))
    /\ UNCHANGED <<inv, probe, tree, extracted, mode, needs_research, queries,
                   evidence, plan, as_of, recency_days, sections, merged_md,
                   final, returned, worker_out, ran, written, calls, searched>>

StreamNext ==
    \/ TryStreamCall
    \/ GraphAppStep
    \/ StreamRaises
    \/ StreamExhausted
    \/ InvokeRaises
    \/ InvokeReturns

StreamSpec == Init /\ [][StreamNext]_vars

\* ---------------------------------------------------------------------
\* src/blog/scripts/replace_use_container_width.py: the migration script.
\* A text is a sequence of pieces: an occurrence of one of the two old
\* spellings, of one of the two new ones, other text, or a byte that is
\* not valid UTF-8.
\* ---------------------------------------------------------------------
MaxPieces == 3      \* pieces of a text file
MaxCells == 2       \* cells of a notebook
MaxLines == 2       \* strings in a cell's source list

OldTrue == "use_container_width=True"
OldFalse == "use_container_width=False"
NewStretch == "width=\"stretch\""
NewContent == "width=\"content\""
OtherText == "x"
BadByte == "0xff"

TextSuffixes == {".py", ".md", ".txt", ".env"}
Suffixes == TextSuffixes \cup {".ipynb", ".json"}

TextPieces == {OldTrue, OldFalse, OtherText, BadByte}
TextFiles == UNION {[1..n -> TextPieces] : n \in 0..MaxPieces}

\* A notebook file: the indentation it was written with and its cells; a
\* cell's source is a list of strings or one string.
SourceLines == {<<OldTrue>>, <<OldFalse>>, <<OtherText>>}
ListSources == UNION {[1..n -> SourceLines] : n \in 0..MaxLines}
NotebookCells ==
    {[is_list |-> TRUE, source |-> src] : src \in ListSources}
    \cup {[is_list |-> FALSE, source |-> line] : line \in SourceLines}
Notebooks ==
    [indent : {1, 2},
     cells : UNION {[1..n -> NotebookCells] : n \in 0..MaxCells}]

\* path.read_text(encoding="utf-8", errors="ignore").
ReadText(bytes) == SelectSeq(bytes, LAMBDA b : b # BadByte)

\* old in txt
OldIn(old, txt) == \E i \in 1..Len(txt) : txt[i] = old

\* txt.replace(old, new)
StrReplace(txt, old, new) ==
    [i \in 1..Len(txt) |-> IF txt[i] = old THEN new ELSE txt[i]]

\* replace_in_text on a file f = [content, bak]: the file and its backup
\* afterwards, and the value returned.
ReplaceInText(f, old, new) ==
    LET txt == ReadText(f.content)
    IN IF ~OldIn(old, txt)
       THEN [content |-> f.content, bak |-> f.bak, ret |-> FALSE]
       ELSE [content |-> StrReplace(txt, old, new), bak |-> <<txt>>,
             ret |-> TRUE]

\* json.loads and json.dumps(nb, indent=2).
JsonLoads(file) == file.cells
JsonDumps(cells) == [indent |-> 2, cells |-> cells]

\* The loop over nb["cells"] from cell i on; changed is not reset between
\* cells.
RECURSIVE ReplaceCells(_, _, _)
ReplaceCells(cells, i, changed) ==
    IF i > Len(cells)
    THEN [cells |-> cells, changed |-> changed]
    ELSE IF ~cells[i].is_list
    THEN ReplaceCells(cells, i + 1, changed)
    ELSE LET src0 == Concat(cells[i].source)
             c1 == OldIn(OldTrue, src0)
             src1 == IF c1 THEN StrReplace(src0, OldTrue, NewStretch)
                     ELSE src0
             c2 == OldIn(OldFalse, src1)
             src2 == IF c2 THEN StrReplace(src1, OldFalse, NewContent)
                     ELSE src1
             ch == changed \/ c1 \/ c2
         IN ReplaceCells(IF ch THEN [cells EXCEPT ![i].source = <<src2>>]
                         ELSE cells,
                         i + 1, ch)

\* replace_in_ipynb on a file f = [content, bak].
ReplaceInIpynb(f) ==
    LET r == ReplaceCells(JsonLoads(f.content), 1, FALSE)
    IN IF r.changed
       THEN [content |-> JsonDumps(r.cells), bak |-> <<JsonDumps(r.cells)>>,
             ret |-> TRUE]
       ELSE [content |-> f.content, bak |-> f.bak, ret |-> FALSE]

\* The body of main's loop for one path p.
MainVisit(suffix, f) ==
    IF suffix = ".ipynb"
    THEN ReplaceInIpynb(f)
    ELSE IF suffix \in TextSuffixes
    THEN LET a == ReplaceInText(f, OldTrue, NewStretch)
             b == ReplaceInText(a, OldFalse, NewContent)
         IN [content |-> b.content, bak |-> b.bak, ret |-> a.ret \/ b.ret]
    ELSE [content |-> f.content, bak |-> f.bak, ret |-> FALSE]

\* A file under ROOT before the script runs; it has no backup yet.
PlaceFile ==
    /\ tree = NoTree
    /\ \E suffix \in Suffixes :
         \E content \in (IF suffix = ".ipynb" THEN Notebooks ELSE TextFiles) :
            tree' = [NoTree EXCEPT !.suffix = suffix, !.content = content,
                                   !.before = content]
    /\ UNCHANGED <<inv, graph_vars, probe, stream>>

\* main() visits the file.
Main ==
    /\ tree.suffix # ""
    /\ ~tree.migrated
    /\ LET r == MainVisit(tree.suffix, tree)
       IN tree' = [tree EXCEPT !.content = r.content, !.bak = r.bak,
                               !.migrated = TRUE, !.changed = r.ret]
    /\ UNCHANGED <<inv, graph_vars, probe, stream>>

MigrateNext == PlaceFile \/ Main
MigrateSpec == Init /\ [][MigrateNext]_vars

(***************************************************************************)
(* Properties.                                                             *)
(***************************************************************************)
CallIdx == {j \in 1..Len(inv.trace) : inv.trace[j].ev = "call"}
FallbackIdx == {j \in 1..Len(inv.trace) : inv.trace[j].ev = "fallback"}
LastEv == inv.trace[Len(inv.trace)]
ReducerRan == "reducer" \in Range(ran)
FanoutComplete == pc \in {"worker", "end"} /\ plan.present /\ returned = 1..NumTasks

\* C1: every run reaches End after the Reducer has run, with a non-empty
\* final document in the state: a run that has reached End has run the
\* Reducer and holds a non-empty final document.
C1_RunEndsWithDocument == pc = "end" => (ReducerRan /\ final # <<>>)

\* The liveness half of C1: under fair scheduling every run reaches End.
C1_RunReachesEnd == <>(pc = "end")

\* C2: for retries >= 1 an invocation (structured or raw) returns without
\* raising, and what it returns is the value of a successful backend call
\* or the value fallback_fn returned.
C2_InvokerReturnsValueOrFallback ==
    inv.phase = "done" =>
        /\ inv.retries >= 1
        /\ inv.out.kind = "return"
        /\ inv.out.via \in {"call", "fallback"}
        /\ inv.out.via = "call" =>
              /\ LastEv.ev = "call" /\ LastEv.out = "ok"
              /\ LastEv.cand = inv.out.cand /\ LastEv.attempt = inv.out.attempt
        /\ inv.out.via = "fallback" =>
              /\ LastEv.ev = "fallback" /\ LastEv.err = inv.out.err

\* C2 witness: a raw invocation that saw a transient and a fatal error and
\* ended in the fallback value.
C2_Witness ==
    /\ inv.phase = "done" /\ inv.kind = "raw" /\ inv.out.via = "fallback"
    /\ \E j \in CallIdx : inv.trace[j].err.cls = "transient"
    /\ \E j \in CallIdx : inv.trace[j].err.cls = "fatal"

\* C8: when every backend call fails with a transient error, exactly
\* `retries` calls are made, and fallback_fn is invoked only after the last
\* of them.
C8_TransientRetriedExactly ==
    (/\ inv.phase = "done"
     /\ CallIdx # {}
     /\ \A j \in CallIdx : inv.trace[j].err.cls = "transient")
    => /\ Cardinality(CallIdx) = inv.retries
       /\ Cardinality({inv.trace[j].cand : j \in CallIdx}) = 1
       /\ Cardinality(FallbackIdx) = 1
       /\ \A f \in FallbackIdx : \A j \in CallIdx : j < f
       /\ inv.out.via = "fallback" /\ inv.out.err.cls = "transient"
       /\ inv.out.err.attempt = inv.retries - 1

\* C8 witness: the default retries=3, three transient failures, fallback.
C8_Witness ==
    /\ inv.phase = "done" /\ inv.retries = 3
    /\ Cardinality(CallIdx) = 3
    /\ \A j \in CallIdx : inv.trace[j].err.cls = "transient"
    /\ inv.out.via = "fallback"

\* C9: after a call fails with a not-found error no further call is made to
\* that candidate; the invoker goes on to the next candidate, and to
\* fallback_fn only when none is left.
C9_NotFoundSkipsCandidate ==
    inv.phase = "done" =>
        \A j \in CallIdx :
            inv.trace[j].err.cls = "not_found" =>
                /\ \A k \in CallIdx : k > j => inv.trace[k].cand # inv.trace[j].cand
                /\ j < Len(inv.trace)
                /\ IF inv.trace[j].cand = inv.cands[Len(inv.cands)]
                   THEN inv.trace[j + 1].ev = "fallback"
                   ELSE inv.trace[j + 1].ev = "construct"
                        /\ inv.trace[j + 1].cand # inv.trace[j].cand

\* C10: after a call fails with an error that is neither transient nor
\* not-found, no further call is made and fallback_fn gets that error.
C10_FatalAbortsInvocation ==
    inv.phase = "done" =>
        \A j \in CallIdx :
            inv.trace[j].err.cls = "fatal" =>
                /\ \A k \in CallIdx : k <= j
                /\ j + 1 = Len(inv.trace)
                /\ inv.trace[j + 1].ev = "fallback"
                /\ inv.trace[j + 1].err = inv.trace[j].err

\* C11: in one invocation fallback_fn is invoked at most once; it is invoked
\* exactly when no backend call succeeded, as the last thing the invocation
\* does and with the error of the last failed attempt (the failure right
\* before it); it is never invoked when some backend call succeeded.
C11_FallbackOnceWithLastError ==
    inv.phase = "done" =>
        /\ Cardinality(FallbackIdx) <= 1
        /\ (\E j \in CallIdx : inv.trace[j].out = "ok") => FallbackIdx = {}
        /\ (\A j \in CallIdx : inv.trace[j].out = "error") =>
              Cardinality(FallbackIdx) = 1
        /\ \A f \in FallbackIdx :
              /\ f = Len(inv.trace) /\ f > 1
              /\ inv.trace[f - 1].out = "error"
              /\ inv.trace[f].err = inv.trace[f - 1].err
              /\ inv.out = ReturnFallback(inv.trace[f].err)

\* C11 witness: every candidate failed while its client was constructed (no
\* backend call at all), and fallback_fn got the error of the last candidate.
C11_Witness ==
    /\ inv.phase = "done" /\ Len(inv.cands) = 4
    /\ Len(inv.trace) = Len(inv.cands) + 1
    /\ \A j \in 1..Len(inv.cands) :
          inv.trace[j].ev = "construct" /\ inv.trace[j].cand = inv.cands[j]
          /\ inv.trace[j].out = "error"
    /\ LastEv.ev = "fallback" /\ LastEv.err.cand = inv.cands[Len(inv.cands)]

\* C3: the sections of the final document are in ascending task-id order,
\* and the document is the same whatever the order the workers completed
\* in: it is the document of the run in which they complete in plan order.
C3_DocumentIndependentOfCompletionOrder ==
    (pc = "end" /\ ReducerRan) =>
        /\ \A i, j \in 1..Len(SortById(sections)) :
              i < j => SortById(sections)[i][1] <= SortById(sections)[j][1]
        /\ final = <<Section("h1", plan.blog_title, 0)>>
                   \o [i \in 1..Len(sections) |-> SortById(sections)[i][2]]
        /\ final = MergedMd(plan, worker_out)

\* C4: the Reducer has run only if all N = len(plan.tasks) workers have
\* returned, and the section list then holds exactly N pairs.
C4_ReducerAfterAllWorkers ==
    (ReducerRan \/ final # <<>>) =>
        /\ plan.present
        /\ returned = 1..Len(plan.tasks)
        /\ Len(sections) = Len(plan.tasks)

\* C4 witness: the reducer ran after two workers, one of which ended in the
\* placeholder, returned in the order opposite to the plan's.
C4_Witness ==
    /\ ReducerRan /\ NumTasks = 2 /\ Len(sections) = 2
    /\ sections[1] = worker_out[2]
    /\ sections[1][2].kind = "placeholder" /\ sections[2][2].kind = "model"

\* C5: when the fan-out has completed, for every task id of the plan
\* exactly one pair of the section list carries that id.
C5_OneSectionPerTaskId ==
    FanoutComplete =>
        \A i \in 1..Len(plan.tasks) :
            Cardinality({j \in 1..Len(sections) :
                            sections[j][1] = plan.tasks[i].id}) = 1

\* C6: every plan PlanBuilder emits has a total of target_words within 5%
\* of 2500.
C6_TotalWithinFivePercent ==
    plan.present => (2375 <= TotalWords(plan) /\ TotalWords(plan) <= 2625)

\* C7: in every plan PlanBuilder emits, a task whose title matches no fixed
\* role has target_words <= 600.
C7_MainTaskAtMost600 ==
    plan.present =>
        \A i \in 1..Len(plan.tasks) :
            RoleOf(plan.tasks[i].title) = 0 => plan.tasks[i].target_words <= 600

\* The order of the stages in the graph, and the stages a run with the
\* state's needs_research and plan goes through.
StageRank(node) ==
    CASE node = "router" -> 1
      [] node = "research" -> 2
      [] node = "orchestrator" -> 3
      [] node = "worker" -> 4
      [] node = "reducer" -> 5

ExpectedStages ==
    <<"router">> \o (IF needs_research THEN <<"research">> ELSE <<>>)
    \o <<"orchestrator">> \o [i \in 1..NumTasks |-> "worker"] \o <<"reducer">>

C13_ClosedBookSkipsResearch ==
    (mode = "closed_book" /\ "router" \in Range(ran)) =>
        /\ pc # "research"
        /\ "research" \notin Range(ran)
        /\ evidence = <<>>
        /\ \A i \in 1..NumTasks :
              Fanout(plan, mode, as_of, recency_days, evidence)[i].evidence = <<>>

\* C14: once the Router has run, the recency-days in the state is 7 when the
\* mode is open_book, 45 when it is hybrid and 3650 when it is closed_book,
\* whatever the decision's other fields (needs_research, queries) are.
C14_RecencyDaysByMode ==
    "router" \in Range(ran) =>
        /\ mode \in Modes
        /\ mode = "open_book" => recency_days = 7
        /\ mode = "hybrid" => recency_days = 45
        /\ mode = "closed_book" => recency_days = 3650

\* C14 witness: the Router has just returned a hybrid decision that asks for
\* no research; the state holds 45 days.
C14_Witness ==
    /\ ran = <<"router">> /\ mode = "hybrid" /\ ~needs_research
    /\ recency_days = 45

\* C15: when every model call of the Router failed (the Router got its
\* fallback's decision), the state holds mode closed_book, needs_research
\* false, no query and 3650 recency-days, the stage after the Router is
\* PlanBuilder, the EvidenceCollector never runs and no search is issued.
C15_RouterFallbackDecision ==
    (calls # <<>> /\ calls[1] = ModelCall("router", "fallback")) =>
        /\ mode = "closed_book" /\ ~needs_research /\ queries = <<>>
        /\ recency_days = 3650
        /\ Len(ran) = 1 => pc = "orchestrator"
        /\ Len(ran) >= 2 => ran[2] = "orchestrator"
        /\ "research" \notin Range(ran)
        /\ searched = <<>>

\* C15 witness: a run whose Router fell back has gone on through PlanBuilder
\* and the workers to a final document.
C15_Witness ==
    /\ calls # <<>> /\ calls[1] = ModelCall("router", "fallback")
    /\ pc = "end" /\ final # <<>>
    /\ ran[2] = "orchestrator"

\* C16: when every model call of PlanBuilder failed (PlanBuilder got its
\* fallback's plan), the plan in the state has exactly one task, the generic
\* overview task, and its target_words is 250.
C16_FallbackPlanOverview250 ==
    ModelCall("orchestrator", "fallback") \in Range(calls) =>
        /\ plan.present
        /\ Len(plan.tasks) = 1
        /\ plan.tasks[1].id = 1
        /\ plan.tasks[1].title = TitleOverview
        /\ plan.tasks[1].target_words = 250

\* C17: budget normalization sets the target_words of every task whose
\* lower-cased title contains a role keyword to the budget of the first role,
\* in the order introduction 200, definition 200, conclusion 200, faq 400,
\* that it contains, and changes nothing else of such a task; for the plan
\* Introduction, Definition, FAQs the result is 200, 200, 400, a total of 800
\* with the remaining 1700 words given to no task.
C17_RoleBudgets ==
    probe.fn = "budget" =>
        /\ Len(probe.output) = Len(probe.input)
        /\ \A i \in 1..Len(probe.input) :
              LET t == Lower(probe.input[i].title)
                  w == probe.output[i].target_words
              IN /\ [probe.output[i] EXCEPT !.target_words = 0]
                        = [probe.input[i] EXCEPT !.target_words = 0]
                 /\ IF Contains(<<"i","n","t","r","o","d","u","c","t","i","o","n">>, t) THEN w = 200
                    ELSE IF Contains(<<"d","e","f","i","n","i","t","i","o","n">>, t) THEN w = 200
                    ELSE IF Contains(<<"c","o","n","c","l","u","s","i","o","n">>, t) THEN w = 200
                    ELSE IF Contains(<<"f","a","q">>, t) THEN w = 400
                    ELSE TRUE
        /\ [i \in 1..Len(probe.input) |-> probe.input[i].title]
              = <<TitleIntroduction, TitleDefinition, TitleFAQs>>
           => /\ [i \in 1..3 |-> probe.output[i].target_words] = <<200, 200, 400>>
              /\ SumSeq([i \in 1..3 |-> probe.output[i].target_words]) = 800

\* C17 witness: the plan Introduction, Definition, FAQs, each task proposed
\* at 550 words, normalized to 200, 200, 400.
C17_Witness ==
    /\ probe.fn = "budget"
    /\ [i \in 1..Len(probe.input) |-> probe.input[i].title]
          = <<TitleIntroduction, TitleDefinition, TitleFAQs>>
    /\ [i \in 1..Len(probe.input) |-> probe.input[i].target_words]
          = <<550, 550, 550>>
    /\ [i \in 1..Len(probe.output) |-> probe.output[i].target_words]
          = <<200, 200, 400>>

\* C18: after EvidenceCollector the evidence list in the state has no item
\* with an empty url and no two items with the same url, and each item is
\* the last one the extractor returned with its url.
C18_EvidenceDedupLastWins ==
    "research" \in Range(ran) =>
        /\ \A i \in 1..Len(evidence) : evidence[i].url # ""
        /\ \A i, j \in 1..Len(evidence) :
              i # j => evidence[i].url # evidence[j].url
        /\ \A i \in 1..Len(evidence) :
              \E k \in 1..Len(extracted) :
                 /\ extracted[k] = evidence[i]
                 /\ \A j \in (k + 1)..Len(extracted) :
                       extracted[j].url # evidence[i].url

\* C18 witness: the extractor returned an item without url and two items
\* with the url u1; the EvidenceCollector (mode hybrid) kept the last one.
C18_Witness ==
    /\ "research" \in Range(ran) /\ mode = "hybrid"
    /\ Len(extracted) = 3 /\ extracted[1].url = ""
    /\ extracted[2].url = "u1" /\ extracted[3].url = "u1"
    /\ extracted[2] # extracted[3]
    /\ evidence = <<extracted[3]>>

\* C19: evidence deduplication is idempotent: applied to its own output it
\* yields the same items in the same order as applied once.
C19_DedupIdempotent ==
    probe.fn = "dedup" => DedupByUrl(probe.output) = probe.output

\* C19 witness: a list with the urls u1, u2, u1 (the two u1 items differing)
\* was deduplicated to the last u1 item followed by the u2 item, and
\* deduplicating those again changes nothing.
C19_Witness ==
    /\ probe.fn = "dedup"
    /\ [i \in 1..Len(probe.input) |-> probe.input[i].url] = <<"u1", "u2", "u1">>
    /\ probe.input[1] # probe.input[3]
    /\ probe.output = <<probe.input[3], probe.input[2]>>
    /\ DedupByUrl(probe.output) = probe.output

\* C20: after EvidenceCollector has run, in whatever mode, no evidence item
\* in the state has a publish date earlier than as_of minus recency_days.
C20_NoEvidenceOlderThanCutoff ==
    "research" \in Range(ran) =>
        \A i \in 1..Len(evidence) :
            evidence[i].published_at.kind = "iso" =>
                evidence[i].published_at.day >= as_of - recency_days

\* C21: EvidenceCollector searches exactly the first 10 queries (all of them
\* when there are fewer), in order; a search that failed contributed no hit
\* and did not abort the stage: whatever searches and extraction failed, the
\* stage has returned an evidence list, empty when no search returned a hit
\* or the extraction failed, and the next stage is PlanBuilder.
C21_SearchCapAndFailuresSwallowed ==
    "research" \in Range(ran) =>
        /\ pc = "orchestrator"
        /\ Len(searched) <= 10
        /\ Len(searched) = IF Len(queries) < 10 THEN Len(queries) ELSE 10
        /\ \A i \in 1..Len(searched) :
              /\ searched[i].query = queries[i]
              /\ searched[i].outcome = "error" => searched[i].hits = 0
        /\ evidence \in Seq(Range(evidence))
        /\ (\A i \in 1..Len(searched) : searched[i].hits = 0) =>
              (evidence = <<>> /\ ModelCall("research", "call") \notin Range(calls)
               /\ ModelCall("research", "fallback") \notin Range(calls))
        /\ ModelCall("research", "fallback") \in Range(calls) => evidence = <<>>

\* C21 witness: eleven queries, ten searched, the first nine of them failed
\* and the tenth returned a hit; the extraction failed too, and the stage
\* handed an empty evidence list to PlanBuilder.
C21_Witness ==
    /\ "research" \in Range(ran) /\ pc = "orchestrator"
    /\ Len(queries) = 11 /\ Len(searched) = 10
    /\ \A i \in 1..9 : searched[i].outcome = "error"
    /\ searched[10].outcome = "ok" /\ searched[10].hits = 1
    /\ ModelCall("research", "fallback") \in Range(calls)
    /\ evidence = <<>>

\* C22: in a run of the graph the Plan is present in the state whenever the
\* Reducer runs, so the Reducer never raises its no-Plan error there; a
\* Reducer invoked with no Plan (outside the graph) raises and leaves no
\* final document and no persisted artifact.
C22_ReducerNeedsPlan ==
    /\ (ReducerRan /\ ran[1] = "router") => (plan.present /\ pc = "end")
    /\ pc = "crashed" =>
          /\ ran = <<"reducer">> /\ ~plan.present
          /\ final = <<>> /\ merged_md = <<>> /\ written = <<>>

\* C22 witness: the Reducer has run in a run of the graph, with the plan
\* PlanBuilder emitted, and has written the artifact.
C22_Witness ==
    /\ ReducerRan /\ ran[1] = "router" /\ plan.present
    /\ Len(written) = 1 /\ written[1].content = final /\ final # <<>>

\* C23: a step in which a worker returns changes nothing of the shared
\* state but the section list, to which it appends the worker's own pair
\* (its task's id and a section text for its task's title): the plan keeps
\* the bullets PlanBuilder emitted, also for a FAQ task, and the payload of
\* every worker is what it was.
C23_WorkerFrame ==
    [][ (pc = "worker" /\ returned' # returned) =>
          /\ \E i \in (1..NumTasks) \ returned :
                /\ returned' = returned \cup {i}
                /\ Len(sections') = Len(sections) + 1
                /\ SubSeq(sections', 1, Len(sections)) = sections
                /\ sections'[Len(sections')][1] = plan.tasks[i].id
                /\ sections'[Len(sections')][2].title = plan.tasks[i].title
          /\ plan' = plan
          /\ \A j \in 1..NumTasks : plan'.tasks[j].bullets = plan.tasks[j].bullets
          /\ Fanout(plan, mode, as_of, recency_days, evidence)'
                = Fanout(plan, mode, as_of, recency_days, evidence)
          /\ UNCHANGED <<mode, needs_research, queries, evidence, as_of,
                         recency_days, merged_md, final, written, pc>>
      ]_vars

\* C23 witness: the worker of a FAQ task has returned while its sibling has
\* not; the plan still holds the bullets PlanBuilder emitted for both.
C23_Witness ==
    /\ pc = "worker" /\ NumTasks = 2 /\ returned = {1}
    /\ plan.tasks[1].title = TitleFAQs
    /\ WorkerTask(Fanout(plan, mode, as_of, recency_days, evidence)[1]).bullets
          = FaqBullets
    /\ plan.tasks[1].bullets = ModelBullets
    /\ plan.tasks[2].bullets = ModelBullets
    /\ Len(sections) = 1 /\ sections[1][1] = plan.tasks[1].id

\* The role keywords found in a lower-cased title, and the fixed budget of
\* a task by them (the three 200-word roles come before faq).
HasKey(key, title) == Contains(key, Lower(title))
Has200Key(title) ==
    \/ HasKey(<<"i","n","t","r","o","d","u","c","t","i","o","n">>, title)
    \/ HasKey(<<"d","e","f","i","n","i","t","i","o","n">>, title)
    \/ HasKey(<<"c","o","n","c","l","u","s","i","o","n">>, title)
HasFaqKey(title) == HasKey(<<"f","a","q">>, title)
FixedWordsOf(title) ==
    IF Has200Key(title) THEN 200 ELSE IF HasFaqKey(title) THEN 400 ELSE 0

\* C24: with count >= 1 tasks matching no role and fixed_total < 2500, every
\* such task gets exactly (2500 - fixed_total) \div count, the plan total is
\* at most 2500 and short of it by less than count; with fixed_total >= 2500
\* the tasks matching no role keep the target_words proposed.
C24_RemainderSplit ==
    probe.fn = "budget" =>
        LET tin == probe.input
            tout == probe.output
            main == {i \in 1..Len(tin) : FixedWordsOf(tin[i].title) = 0}
            fixed_total == SumSeq([i \in 1..Len(tin) |-> FixedWordsOf(tin[i].title)])
            count == Cardinality(main)
            total == SumSeq([i \in 1..Len(tout) |-> tout[i].target_words])
        IN /\ (count >= 1 /\ fixed_total < 2500) =>
                /\ \A i \in main :
                      tout[i].target_words = (2500 - fixed_total) \div count
                /\ total <= 2500
                /\ 2500 - total < count
           /\ fixed_total >= 2500 =>
                \A i \in main : tout[i].target_words = tin[i].target_words

\* C24 witness: one Introduction and three tasks matching no role: each of
\* the three gets 2300 \div 3 = 766 words, the total is 2498.
C24_Witness ==
    /\ probe.fn = "budget" /\ Len(probe.input) = 4
    /\ probe.input[1].title = TitleIntroduction
    /\ \A i \in 2..4 : probe.input[i].title = TitleCore
                        /\ probe.output[i].target_words = 766
    /\ SumSeq([i \in 1..4 |-> probe.output[i].target_words]) = 2498

\* The extracted items that survive the url dedup: those with a url that
\* no later extracted item carries.
DedupSurvivors ==
    {k \in 1..Len(extracted) :
        /\ extracted[k].url # ""
        /\ \A j \in (k + 1)..Len(extracted) : extracted[j].url # extracted[k].url}

\* C25: in open_book mode a deduplicated extracted item is in the evidence
\* if and only if its published_at parses as an ISO date d with
\* d >= as_of - recency_days (missing or unparseable dates are dropped, a
\* date on the cutoff day is kept); in the other modes every deduplicated
\* extracted item is in the evidence, whatever its date.
C25_OpenBookDateFilter ==
    "research" \in Range(ran) =>
        /\ \A i \in 1..Len(evidence) :
              \E k \in DedupSurvivors : extracted[k] = evidence[i]
        /\ mode = "open_book" =>
              \A k \in DedupSurvivors :
                 extracted[k] \in Range(evidence)
                 <=> /\ extracted[k].published_at.kind = "iso"
                     /\ extracted[k].published_at.day >= as_of - recency_days
        /\ mode # "open_book" =>
              \A k \in DedupSurvivors : extracted[k] \in Range(evidence)

\* C25 witness: open_book; the extractor returned an item without date, one
\* with an unparseable date and one dated exactly as_of - 7; only the last
\* is in the evidence.
C25_Witness ==
    /\ "research" \in Range(ran) /\ mode = "open_book" /\ recency_days = 7
    /\ Len(extracted) = 3
    /\ extracted[1].published_at.kind = "none" /\ extracted[1].url # ""
    /\ extracted[2].published_at.kind = "bad" /\ extracted[2].url # ""
    /\ extracted[3].published_at = Published("iso", as_of - 7)
    /\ evidence = <<extracted[3]>>

\* Number of runs of a node in the log of node runs.
RunsOf(node) == Cardinality({i \in 1..Len(ran) : ran[i] = node})

\* C26: when a call of try_stream has ended with its "final" event, the
\* graph was executed exactly once for the request: Router, PlanBuilder and
\* Reducer each ran once and one artifact was written.
C26_GraphExecutedOnce ==
    stream.phase = "done" =>
        /\ RunsOf("router") = 1
        /\ RunsOf("orchestrator") = 1
        /\ RunsOf("reducer") = 1
        /\ Len(written) = 1

\* C27: a "final" event is yielded only by a call of try_stream that ends
\* without raising; such a call yielded exactly one "final" event, as its
\* last event, so every "updates" and "values" event precedes it.
C27_OneFinalLast ==
    LET ev == stream.events
    IN /\ stream.phase = "done" =>
            /\ Len(ev) >= 1
            /\ ev[Len(ev)] = "final"
            /\ \A i \in 1..(Len(ev) - 1) : ev[i] \in {"updates", "values"}
       /\ stream.phase # "done" => "final" \notin Range(ev)

\* C27 witness: the first attempt streamed "updates" events and then
\* raised, the second attempt streamed "values" events, and the call ended
\* with "final" as the last event.
C27_Witness ==
    /\ stream.phase = "done"
    /\ stream.attempt = 2
    /\ "updates" \in Range(stream.events)
    /\ "values" \in Range(stream.events)
    /\ stream.events[Len(stream.events)] = "final"

\* An occurrence of one of the two old spellings in a file's content as
\* the script reads it.
HasOccurrence(suffix, content) ==
    IF suffix = ".ipynb"
    THEN \E i \in 1..Len(content.cells) :
            LET src == IF content.cells[i].is_list
                       THEN Concat(content.cells[i].source)
                       ELSE content.cells[i].source
            IN OldIn(OldTrue, src) \/ OldIn(OldFalse, src)
    ELSE OldIn(OldTrue, ReadText(content))
         \/ OldIn(OldFalse, ReadText(content))

\* C28: after main has changed a file, its .bak exists and holds the file's
\* content as it was before the script ran; a file of a handled suffix
\* with no occurrence is left unchanged and has no .bak.
C28_BackupHoldsOriginal ==
    (tree.migrated /\ tree.suffix \in TextSuffixes \cup {".ipynb"}) =>
        /\ tree.changed => tree.bak = <<tree.before>>
        /\ ~HasOccurrence(tree.suffix, tree.before) =>
              /\ tree.content = tree.before
              /\ tree.bak = <<>>

====
